---- MODULE Spec2Model ----
(***************************************************************************)
(* Model of airfoil-to-stl (src/src/main.rs): a Selig airfoil data file is *)
(* read into a kurbo path, wire_from_path turns the path into a truck wire *)
(* with bit-pattern vertex deduplication, the wire is scaled to the root   *)
(* chord, swept to the tip by extrude_then_transform, and the solid is     *)
(* tessellated and written as binary STL.                                  *)
(*                                                                         *)
(* f64 values are modelled as signed rationals with the IEEE special       *)
(* values (signed zero, infinities, NaN).  All inputs drawn below are      *)
(* dyadic rationals, so every product, sum and quotient the model takes is *)
(* exactly representable and the rational arithmetic is the f64 result.    *)
(***************************************************************************)
EXTENDS Integers, Sequences, FiniteSets, TLC

VARIABLES pc, args, lineNo, path, wire, profile, shell, outfile, panicAt

vars == <<pc, args, lineNo, path, wire, profile, shell, outfile, panicAt>>

(***************************************************************************)
(* Bounds of the model.                                                    *)
(***************************************************************************)
\* number of lines the data file may hold (two of them are skipped headers)
MaxLines == 5
\* number of path elements pushed after the initial MoveTo (wire_from_path
\* driven directly)
MaxEls == 3

(***************************************************************************)
(* f64                                                                     *)
(***************************************************************************)
RECURSIVE GCD(_, _)
GCD(a, b) == IF b = 0 THEN a ELSE GCD(b, a % b)

\* a finite f64: sign bit, numerator and denominator in lowest terms
Fin(neg, n, d) ==
    LET g == GCD(n, d)
    IN  [k |-> "fin", neg |-> neg, n |-> n \div g, d |-> d \div g]

Inf(neg) == [k |-> "inf", neg |-> neg, n |-> 0, d |-> 1]

NaN == [k |-> "nan", neg |-> FALSE, n |-> 0, d |-> 1]

Zero == Fin(FALSE, 0, 1)

NegZero == Fin(TRUE, 0, 1)

One == Fin(FALSE, 1, 1)

Two == Fin(FALSE, 2, 1)

Half == Fin(FALSE, 1, 2)

NegHalf == Fin(TRUE, 1, 2)

IsZero(a) == a.k = "fin" /\ a.n = 0

\* the value of a finite f64 as numerator over the denominator a.d
Signed(a) == IF a.neg THEN 0 - a.n ELSE a.n

Abs(i) == IF i < 0 THEN 0 - i ELSE i

\* f64 multiplication
FMul(a, b) ==
    IF a.k = "nan" \/ b.k = "nan" THEN NaN
    ELSE IF a.k = "inf" \/ b.k = "inf"
         THEN IF IsZero(a) \/ IsZero(b) THEN NaN ELSE Inf(a.neg # b.neg)
         ELSE Fin(a.neg # b.neg, a.n * b.n, a.d * b.d)

\* f64 addition (round to nearest: x + (-x) is +0, (-0) + (-0) is -0)
FAdd(a, b) ==
    IF a.k = "nan" \/ b.k = "nan" THEN NaN
    ELSE IF a.k = "inf" /\ b.k = "inf"
         THEN IF a.neg = b.neg THEN a ELSE NaN
    ELSE IF a.k = "inf" THEN a
    ELSE IF b.k = "inf" THEN b
    ELSE LET s == Signed(a) * b.d + Signed(b) * a.d
         IN  IF s = 0 THEN Fin(a.neg /\ b.neg, 0, 1)
             ELSE Fin(s < 0, Abs(s), a.d * b.d)

\* f64 division: a nonzero value over zero is an infinity, 0/0 is NaN
FDiv(a, b) ==
    IF a.k = "nan" \/ b.k = "nan" THEN NaN
    ELSE IF a.k = "inf"
         THEN IF b.k = "inf" THEN NaN ELSE Inf(a.neg # b.neg)
    ELSE IF b.k = "inf" THEN Fin(a.neg # b.neg, 0, 1)
    ELSE IF b.n = 0
         THEN IF a.n = 0 THEN NaN ELSE Inf(a.neg # b.neg)
         ELSE Fin(a.neg # b.neg, a.n * b.d, a.d * b.n)

\* f64 negation
FNeg(a) == IF a.k = "nan" THEN NaN ELSE [a EXCEPT !.neg = ~a.neg]

\* f64 comparison ==: NaN equals nothing, the two zeros are equal
FEq(a, b) ==
    /\ a.k # "nan"
    /\ b.k # "nan"
    /\ \/ IsZero(a) /\ IsZero(b)
       \/ a = b

\* f64 comparison >
FGt(a, b) ==
    /\ a.k # "nan"
    /\ b.k # "nan"
    /\ ~FEq(a, b)
    /\ IF a.k = "inf" THEN ~a.neg
       ELSE IF b.k = "inf" THEN b.neg
       ELSE Signed(a) * b.d > Signed(b) * a.d

\* f64::to_bits: the bit pattern tells the two zeros apart
ToBits(a) == <<IF a.neg THEN 1 ELSE 0, a.k, a.n, a.d>>

(***************************************************************************)
(* cgmath points, vectors and matrices                                     *)
(***************************************************************************)
\* kurbo::Point
Point2(x, y) == [x |-> x, y |-> y]

\* Point3::new / Vector3::new
Point3(x, y, z) == [x |-> x, y |-> y, z |-> z]

\* Point3 / kurbo::Point comparison ==, coordinate by coordinate
PtEq(p, q) == FEq(p.x, q.x) /\ FEq(p.y, q.y)

\* f64 * Vector3::unit_x() and f64 * Vector3::unit_z()
UnitX(s) == Point3(FMul(s, One), FMul(s, Zero), FMul(s, Zero))

UnitZ(s) == Point3(FMul(s, Zero), FMul(s, Zero), FMul(s, One))

\* Point3 + Vector3
PtAdd(p, v) == Point3(FAdd(p.x, v.x), FAdd(p.y, v.y), FAdd(p.z, v.z))

\* Matrix4, m[row][column]
\* Matrix4::from_nonuniform_scale(x, y, z)
FromNonuniformScale(x, y, z) ==
    <<  <<x, Zero, Zero, Zero>>,
        <<Zero, y, Zero, Zero>>,
        <<Zero, Zero, z, Zero>>,
        <<Zero, Zero, Zero, One>>  >>

\* Matrix4::from_translation(v)
FromTranslation(v) ==
    <<  <<One, Zero, Zero, v.x>>,
        <<Zero, One, Zero, v.y>>,
        <<Zero, Zero, One, v.z>>,
        <<Zero, Zero, Zero, One>>  >>

\* Matrix4 + Matrix4: the sum of the entries
MatAdd(a, b) ==
    [r \in 1..4 |-> [c \in 1..4 |-> FAdd(a[r][c], b[r][c])]]

\* row r of Matrix4 * Vector4 (x, y, z, 1)
MatRow(m, r, p) ==
    FAdd(FAdd(FAdd(FMul(m[r][1], p.x), FMul(m[r][2], p.y)),
              FMul(m[r][3], p.z)),
         FMul(m[r][4], One))

\* Matrix4::transform_point: Point3::from_homogeneous(m * p.to_homogeneous()),
\* which multiplies the first three rows by 1 / w
TransformPoint(m, p) ==
    LET rw == FDiv(One, MatRow(m, 4, p))
    IN  Point3(FMul(MatRow(m, 1, p), rw),
               FMul(MatRow(m, 2, p), rw),
               FMul(MatRow(m, 3, p), rw))

(***************************************************************************)
(* kurbo paths                                                             *)
(***************************************************************************)
\* kurbo::PathEl
MoveTo(p) == [el |-> "MoveTo", pts |-> <<p>>]

LineTo(p) == [el |-> "LineTo", pts |-> <<p>>]

QuadTo(p1, p2) == [el |-> "QuadTo", pts |-> <<p1, p2>>]

CurveTo(p1, p2, p3) == [el |-> "CurveTo", pts |-> <<p1, p2, p3>>]

ClosePath == [el |-> "ClosePath", pts |-> <<>>]

\* kurbo::PathSeg: Line(p0, p1), Quad(p0, p1, p2), Cubic(p0, p1, p2, p3)
PathSeg(kind, pts) == [kind |-> kind, pts |-> pts]

\* BezPath::segments from element i on; start is the start of the current
\* subpath and last the current point.  ClosePath yields a line back to the
\* start unless the current point already compares equal to it.
RECURSIVE SegmentsFrom(_, _, _, _)
SegmentsFrom(els, i, start, last) ==
    IF i > Len(els) THEN <<>>
    ELSE LET el == els[i]
         IN  CASE el.el = "MoveTo" ->
                    SegmentsFrom(els, i + 1, el.pts[1], el.pts[1])
               [] el.el = "LineTo" ->
                    <<PathSeg("Line", <<last>> \o el.pts)>>
                        \o SegmentsFrom(els, i + 1, start, el.pts[1])
               [] el.el = "QuadTo" ->
                    <<PathSeg("Quad", <<last>> \o el.pts)>>
                        \o SegmentsFrom(els, i + 1, start, el.pts[2])
               [] el.el = "CurveTo" ->
                    <<PathSeg("Cubic", <<last>> \o el.pts)>>
                        \o SegmentsFrom(els, i + 1, start, el.pts[3])
               [] el.el = "ClosePath" ->
                    IF ~PtEq(last, start)
                    THEN <<PathSeg("Line", <<last, start>>)>>
                             \o SegmentsFrom(els, i + 1, start, start)
                    ELSE SegmentsFrom(els, i + 1, start, last)

\* path.segments() of a path that begins with a MoveTo
Segments(els) == SegmentsFrom(els, 1, els[1].pts[1], els[1].pts[1])

(***************************************************************************)
(* wire_from_path                                                          *)
(***************************************************************************)
\* the HashMap key of a point: (x.to_bits(), y.to_bits())
Key(p) == <<ToBits(p.x), ToBits(p.y)>>

\* builder::vertex: a fresh vertex; two vertices are equal when they are the
\* same allocation (id)
Vertex(id, pt) == [id |-> id, pt |-> pt]

\* Option<Vertex>::None
NoVertex == Vertex(0, Point3(Zero, Zero, Zero))

\* HashMap::new(), with the number of vertices allocated so far
NewTable == [map |-> <<>>, allocs |-> 0]

\* vert without the lookup: every call allocates and inserts a new vertex
VertAlwaysNew(tbl, p) ==
    LET v == Vertex(tbl.allocs + 1, Point3(p.x, p.y, Zero))
    IN  [tbl |-> [map |-> (Key(p) :> v) @@ tbl.map,
                  allocs |-> tbl.allocs + 1],
         v |-> v]

\* the closure vert: the cached vertex of the key, else a new vertex that is
\* inserted under the key
Vert(tbl, p) ==
    LET k == Key(p)
    IN  IF k \in DOMAIN tbl.map
        THEN [tbl |-> tbl, v |-> tbl.map[k]]
        ELSE LET v == Vertex(tbl.allocs + 1, Point3(p.x, p.y, Zero))
             IN  [tbl |-> [map |-> (k :> v) @@ tbl.map,
                           allocs |-> tbl.allocs + 1],
                  v |-> v]

\* Edge::new under builder::line and builder::bezier: an edge between a
\* vertex and itself is refused (the builders panic on it)
EdgeNew(front, back, kind, ctrl) ==
    [ok |-> front.id # back.id,
     edge |-> [front |-> front, back |-> back, kind |-> kind, ctrl |-> ctrl]]

\* builder::line
BuilderLine(v0, v1) == EdgeNew(v0, v1, "Line", <<>>)

\* builder::bezier with the inner control points
BuilderBezier(v0, v1, ctrl) == EdgeNew(v0, v1, "Bezier", ctrl)

\* the inner control points of a segment lifted to z = 0
Lifted(seg) ==
    [j \in 1..(Len(seg.pts) - 2) |->
        Point3(seg.pts[j + 1].x, seg.pts[j + 1].y, Zero)]

\* every segment taken for a Bezier segment
SegEdgeBezier(seg, front, end) == BuilderBezier(front, end, Lifted(seg))

\* the edge a segment becomes
SegEdge(seg, front, end) ==
    IF seg.kind = "Line" THEN BuilderLine(front, end)
    ELSE BuilderBezier(front, end, Lifted(seg))

\* one iteration of the loop over path.segments(): end = vert(last point),
\* then last.unwrap_or(vert(p0)), whose argument is evaluated in any case
WireStep(st, seg) ==
    LET rEnd   == Vert(st.tbl, seg.pts[Len(seg.pts)])
        rStart == Vert(rEnd.tbl, seg.pts[1])
        front  == IF st.last = NoVertex THEN rStart.v ELSE st.last
        e      == SegEdge(seg, front, rEnd.v)
    IN  IF e.ok
        THEN [status |-> "ok", tbl |-> rStart.tbl,
              edges |-> Append(st.edges, e.edge), last |-> rEnd.v]
        ELSE [status |-> "SameVertex", tbl |-> rStart.tbl,
              edges |-> st.edges, last |-> st.last]

RECURSIVE WireLoop(_, _, _)
WireLoop(segs, i, st) ==
    IF i > Len(segs) \/ st.status # "ok" THEN st
    ELSE WireLoop(segs, i + 1, WireStep(st, segs[i]))

\* wire_from_path without the closing step
CloseWireNever(edges) == edges

\* the closing step deciding by the coordinates of the two vertices instead
\* of by the vertices themselves
CloseWireByValue(edges) ==
    LET start == edges[1].front
        end   == edges[Len(edges)].back
    IN  IF ~PtEq(start.pt, end.pt)
        THEN Append(edges, BuilderLine(end, start).edge)
        ELSE edges

\* the wire is closed when the front of the first edge is the back of the
\* last one; otherwise a closing line is pushed
CloseWire(edges) ==
    LET start == edges[1].front
        end   == edges[Len(edges)].back
    IN  IF start.id # end.id
        THEN Append(edges, BuilderLine(end, start).edge)
        ELSE edges

\* wire_from_path(path, verts): status "ok" with the edges of the wire, or
\* the panic the call ends in ("SameVertex" from the edge builders,
\* "IndexOutOfBounds" from edges[0] on a path without segments)
WireFromPath(els, verts) ==
    LET segs == Segments(els)
        st   == WireLoop(segs, 1, [status |-> "ok", tbl |-> verts,
                                   edges |-> <<>>, last |-> NoVertex])
    IN  IF st.status # "ok"
        THEN [status |-> st.status, edges |-> <<>>, tbl |-> st.tbl,
              segs |-> segs]
        ELSE IF Len(st.edges) = 0
        THEN [status |-> "IndexOutOfBounds", edges |-> <<>>, tbl |-> st.tbl,
              segs |-> segs]
        ELSE [status |-> "ok", edges |-> CloseWire(st.edges), tbl |-> st.tbl,
              segs |-> segs]

\* the value of the wire before wire_from_path has been called
NoWire == [status |-> "none", edges |-> <<>>, tbl |-> NewTable, segs |-> <<>>]

(***************************************************************************)
(* builder::scaled and extrude_then_transform                              *)
(***************************************************************************)
\* builder::scaled(wire, origin (0, 0, 0), scalars): every point of the wire
\* goes through the scale matrix; vertices stay shared as they were
Scaled(edges, scalars) ==
    LET m    == FromNonuniformScale(scalars.x, scalars.y, scalars.z)
        V(v) == Vertex(v.id, TransformPoint(m, v.pt))
    IN  [i \in 1..Len(edges) |->
            [front |-> V(edges[i].front), back |-> V(edges[i].back),
             kind |-> edges[i].kind,
             ctrl |-> [j \in 1..Len(edges[i].ctrl) |->
                          TransformPoint(m, edges[i].ctrl[j])]]]

\* the curve of an edge: Curve::Line(Line(p0, p1)) for a line edge
CurveOf(e) == [kind |-> e.kind, p0 |-> e.front.pt, p1 |-> e.back.pt]

\* the point rule of the sweep: translate by extrude, then transform
SweepPoint(pt, extrude, transform) ==
    TransformPoint(transform, TransformPoint(FromTranslation(extrude), pt))

\* the curve rule: curve.transformed(trsl_ex).transformed(transform) keeps
\* the kind of the curve and moves its points
SweepCurve(c, extrude, transform) ==
    [kind |-> c.kind,
     p0 |-> SweepPoint(c.p0, extrude, transform),
     p1 |-> SweepPoint(c.p1, extrude, transform)]

\* the connecting-edge rule: Curve::Line(Line(pt0, pt1))
ConnectPoints(pt0, pt1) == [kind |-> "Line", p0 |-> pt0, p1 |-> pt1]

\* the third point without the extrude vector
PlaneThirdNoExtrude(line, extrude, transform) ==
    TransformPoint(transform, line.p1)

\* the third point of the plane of a line pair
PlaneThird(line, extrude, transform) ==
    PtAdd(TransformPoint(transform, line.p1), extrude)

\* the connecting-surface rule: a plane through three points for a pair of
\* lines, unreachable!() for every other pair
ConnectCurves(curve0, curve1, extrude, transform) ==
    IF curve0.kind = "Line" /\ curve1.kind = "Line"
    THEN [out |-> "Plane",
          plane |-> <<curve0.p0, curve0.p1,
                      PlaneThird(curve0, extrude, transform)>>]
    ELSE [out |-> "unreachable", plane |-> <<>>]

\* extrude_then_transform over the edges of the swept element: the image of
\* every vertex, the connecting line of every vertex and the connecting
\* surface of every edge; one unreachable!() ends the whole sweep
ExtrudeThenTransform(edges, extrude, transform) ==
    LET n     == Len(edges)
        sides == [i \in 1..n |->
                    ConnectCurves(CurveOf(edges[i]),
                                  SweepCurve(CurveOf(edges[i]),
                                             extrude, transform),
                                  extrude, transform)]
    IN  IF \E i \in 1..n : sides[i].out = "unreachable"
        THEN [status |-> "unreachable", tipFront |-> <<>>, tipBack |-> <<>>,
              risers |-> <<>>, laterals |-> <<>>]
        ELSE [status |-> "ok",
              tipFront |-> [i \in 1..n |->
                  SweepPoint(edges[i].front.pt, extrude, transform)],
              tipBack |-> [i \in 1..n |->
                  SweepPoint(edges[i].back.pt, extrude, transform)],
              risers |-> [i \in 1..n |->
                  ConnectPoints(edges[i].front.pt,
                      SweepPoint(edges[i].front.pt, extrude, transform))],
              laterals |-> [i \in 1..n |-> sides[i].plane]]

NoShell == [status |-> "none", tipFront |-> <<>>, tipBack |-> <<>>,
            risers |-> <<>>, laterals |-> <<>>]

\* the extrude vector passed by main
ExtrudeVector(a) == UnitZ(a.semi_wingspan)

\* the transform passed by main: the sum of the scale matrix and the
\* translation matrix
TipTransform(a) ==
    MatAdd(FromNonuniformScale(FDiv(a.tip_chord, a.root_chord),
                               FDiv(a.tip_chord, a.root_chord), One),
           FromTranslation(UnitX(a.sweep)))

(***************************************************************************)
(* Inputs                                                                  *)
(***************************************************************************)
\* command line values
RootChords == {Zero, One, Two}

TipChords == {Half, One}

Sweeps == {Zero, One, NegHalf}

SemiWingspans == {Two}

Args == [root_chord : RootChords, tip_chord : TipChords,
         sweep : Sweeps, semi_wingspan : SemiWingspans]

\* the trailing edge the path starts at
TrailingEdge == Point2(One, Zero)

\* coordinates a data line may carry
DataPts == {Point2(One, Zero), Point2(Zero, Half), Point2(Zero, NegHalf)}

\* a line of the data file as the loop sees it: whether reading it failed,
\* whether it is empty or a comment after trimming, and the numbers that
\* parse out of it
FileLine(io, skip, numbers) == [io |-> io, skip |-> skip, numbers |-> numbers]

FileLines ==
    {FileLine("err", FALSE, <<>>), FileLine("ok", TRUE, <<>>),
     FileLine("ok", FALSE, <<One>>)}
        \cup {FileLine("ok", FALSE, <<p.x, p.y>>) : p \in DataPts}

\* points and elements for paths handed to wire_from_path directly
WirePts == {Point2(One, Zero), Point2(Zero, Zero), Point2(NegZero, Zero)}

CtrlPt == Point2(Half, Half)

PathEls ==
    {MoveTo(p) : p \in WirePts} \cup {LineTo(p) : p \in WirePts}
        \cup {QuadTo(CtrlPt, p) : p \in WirePts}
        \cup {CurveTo(CtrlPt, CtrlPt, p) : p \in WirePts}
        \cup {ClosePath}

(***************************************************************************)
(* main                                                                    *)
(***************************************************************************)
Init ==
    /\ pc = "open"
    /\ args \in Args
    /\ lineNo = 0
    /\ path = <<>>
    /\ wire = NoWire
    /\ profile = <<>>
    /\ shell = NoShell
    /\ outfile = "absent"
    /\ panicAt = "none"

Panic(where) ==
    /\ pc' = "panic"
    /\ panicAt' = where

\* File::open(args.file).expect(..), then the path with its MoveTo
OpenFile ==
    /\ pc = "open"
    /\ \/ /\ pc' = "read"
          /\ path' = <<MoveTo(TrailingEdge)>>
          /\ UNCHANGED panicAt
       \/ /\ Panic("File::open")
          /\ UNCHANGED path
    /\ UNCHANGED <<args, lineNo, wire, profile, shell, outfile>>

\* one iteration of the loop over reader.lines().enumerate()
ReadLine ==
    /\ pc = "read"
    /\ lineNo < MaxLines
    /\ \E line \in FileLines :
          IF lineNo < 2
          THEN UNCHANGED <<pc, path, panicAt>>
          ELSE IF line.io = "err"
          THEN Panic("line.unwrap") /\ UNCHANGED path
          ELSE IF line.skip
          THEN UNCHANGED <<pc, path, panicAt>>
          ELSE IF Len(line.numbers) # 2
          THEN Panic("expected 2 decimal datapoints") /\ UNCHANGED path
          ELSE /\ path' = Append(path,
                       LineTo(Point2(line.numbers[1], line.numbers[2])))
               /\ UNCHANGED <<pc, panicAt>>
    /\ lineNo' = lineNo + 1
    /\ UNCHANGED <<args, wire, profile, shell, outfile>>

\* reader.lines() is exhausted
EndOfFile ==
    /\ pc = "read"
    /\ pc' = "wire"
    /\ UNCHANGED <<args, lineNo, path, wire, profile, shell, outfile, panicAt>>

\* builder::scaled(&wire_from_path(path, &mut HashMap::new()), ..)
BuildProfile ==
    /\ pc = "wire"
    /\ wire' = WireFromPath(path, NewTable)
    /\ IF wire'.status = "ok"
       THEN /\ profile' = Scaled(wire'.edges,
                   Point3(args.root_chord, args.root_chord, args.root_chord))
            /\ pc' = "face"
            /\ UNCHANGED panicAt
       ELSE /\ Panic(wire'.status)
            /\ UNCHANGED profile
    /\ UNCHANGED <<args, lineNo, path, shell, outfile>>

\* the z component of (b - a) x (c - a) for points of the plane z = 0
Cross(a, b, c) ==
    FAdd(FMul(FAdd(b.x, FNeg(a.x)), FAdd(c.y, FNeg(a.y))),
         FNeg(FMul(FAdd(b.y, FNeg(a.y)), FAdd(c.x, FNeg(a.x)))))

\* the vertices of the wire span no plane: they all lie on one line
Collinear(edges) ==
    \A i, j, k \in DOMAIN edges :
        FEq(Cross(edges[i].front.pt, edges[j].front.pt, edges[k].front.pt),
            Zero)

\* builder::try_attach_plane(&vec![profile]).unwrap(): no plane is found for
\* a wire whose points lie on one line (WireNotInOnePlane); for any other
\* wire the library attaches the plane or answers with one of its errors
AttachPlane ==
    /\ pc = "face"
    /\ \/ /\ ~Collinear(profile)
          /\ pc' = "extrude"
          /\ UNCHANGED panicAt
       \/ Panic("try_attach_plane")
    /\ UNCHANGED <<args, lineNo, path, wire, profile, shell, outfile>>

\* extrude_then_transform(&face, ..).into_boundaries().pop().unwrap()
Extrude ==
    /\ pc = "extrude"
    /\ shell' = ExtrudeThenTransform(profile, ExtrudeVector(args),
                                     TipTransform(args))
    /\ IF shell'.status = "ok"
       THEN pc' = "solid" /\ UNCHANGED panicAt
       ELSE Panic("unreachable")
    /\ UNCHANGED <<args, lineNo, path, wire, profile, outfile>>

\* Solid::new(vec![base]): the library accepts the shell or panics
NewSolid ==
    /\ pc = "solid"
    /\ \/ pc' = "create" /\ UNCHANGED panicAt
       \/ Panic("Solid::new")
    /\ UNCHANGED <<args, lineNo, path, wire, profile, shell, outfile>>

\* File::create(args.outfile).expect(..): the file exists and is empty
CreateFile ==
    /\ pc = "create"
    /\ \/ /\ pc' = "stl"
          /\ outfile' = "empty"
          /\ UNCHANGED panicAt
       \/ /\ Panic("File::create")
          /\ UNCHANGED outfile
    /\ UNCHANGED <<args, lineNo, path, wire, profile, shell>>

\* solid_to_stl(solid, 0.05): tessellation, then stl::write(..).unwrap()
SolidToStl ==
    /\ pc = "stl"
    /\ \/ pc' = "write" /\ UNCHANGED panicAt
       \/ Panic("stl::write")
    /\ UNCHANGED <<args, lineNo, path, wire, profile, shell, outfile>>

\* f.write(&bytes).unwrap(): write may take all of the buffer or a part of
\* it, or fail
WriteFile ==
    /\ pc = "write"
    /\ \/ /\ pc' = "done"
          /\ outfile' \in {"complete", "partial"}
          /\ UNCHANGED panicAt
       \/ /\ Panic("f.write")
          /\ UNCHANGED outfile
    /\ UNCHANGED <<args, lineNo, path, wire, profile, shell>>

Next ==
    \/ OpenFile
    \/ ReadLine
    \/ EndOfFile
    \/ BuildProfile
    \/ AttachPlane
    \/ Extrude
    \/ NewSolid
    \/ CreateFile
    \/ SolidToStl
    \/ WriteFile

Spec == Init /\ [][Next]_vars

(***************************************************************************)
(* wire_from_path and extrude_then_transform on arbitrary paths            *)
(***************************************************************************)
InitWire ==
    /\ pc = "w_path"
    /\ args \in {a \in Args : a.root_chord = One /\ a.sweep = Zero}
    /\ lineNo = 0
    /\ path \in {<<MoveTo(p)>> : p \in WirePts}
    /\ wire = NoWire
    /\ profile = <<>>
    /\ shell = NoShell
    /\ outfile = "absent"
    /\ panicAt = "none"

\* BezPath::push
PushEl ==
    /\ pc = "w_path"
    /\ Len(path) <= MaxEls
    /\ \E el \in PathEls : path' = Append(path, el)
    /\ UNCHANGED <<pc, args, lineNo, wire, profile, shell, outfile, panicAt>>

\* wire_from_path(path, &mut HashMap::new())
CallWireFromPath ==
    /\ pc = "w_path"
    /\ wire' = WireFromPath(path, NewTable)
    /\ IF wire'.status = "ok"
       THEN pc' = "w_wire" /\ profile' = wire'.edges /\ UNCHANGED panicAt
       ELSE Panic(wire'.status) /\ UNCHANGED profile
    /\ UNCHANGED <<args, lineNo, path, shell, outfile>>

\* extrude_then_transform(&wire, extrude, transform)
CallExtrude ==
    /\ pc = "w_wire"
    /\ shell' = ExtrudeThenTransform(profile, ExtrudeVector(args),
                                     TipTransform(args))
    /\ IF shell'.status = "ok"
       THEN pc' = "w_swept" /\ UNCHANGED panicAt
       ELSE Panic("unreachable")
    /\ UNCHANGED <<args, lineNo, path, wire, profile, outfile>>

NextWire ==
    \/ PushEl
    \/ CallWireFromPath
    \/ CallExtrude

SpecWire == InitWire /\ [][NextWire]_vars

(***************************************************************************)
(* Properties                                                              *)
(***************************************************************************)
\* the vertices of a sequence of edges
VerticesOf(edges) ==
    {edges[i].front : i \in DOMAIN edges} \cup {edges[i].back : i \in DOMAIN edges}

\* numeric equality of two 3D points
Pt3Eq(p, q) == FEq(p.x, q.x) /\ FEq(p.y, q.y) /\ FEq(p.z, q.z)

\* the first point of the first segment and the last point of the last one
FirstPoint(segs) == segs[1].pts[1]

LastPoint(segs) == segs[Len(segs)].pts[Len(segs[Len(segs)].pts)]

\* the tip image the taper-and-sweep description gives a root-profile point
TaperedImage(p, a) ==
    Point3(FAdd(FMul(p.x, FDiv(a.tip_chord, a.root_chord)), a.sweep),
           FMul(p.y, FDiv(a.tip_chord, a.root_chord)),
           a.semi_wingspan)

\* C1: with a root chord above zero, the sweep maps every root-profile point
\* (x, y, 0) to (x*Ct/Cr + sweep, y*Ct/Cr, semiWingspan).
C1_TipImage ==
    (shell.status = "ok" /\ FGt(args.root_chord, Zero)) =>
        \A i \in DOMAIN profile :
            Pt3Eq(shell.tipBack[i], TaperedImage(profile[i].back.pt, args))

\* C2: the wire wire_from_path returns is closed: the front vertex of its
\* first edge is the back vertex of its last edge, the same vertex under the
\* same key.
C2_ClosedWire ==
    wire.status = "ok" =>
        /\ Len(wire.edges) > 0
        /\ wire.edges[1].front = wire.edges[Len(wire.edges)].back
        /\ Key(wire.edges[1].front.pt)
              = Key(wire.edges[Len(wire.edges)].back.pt)

\* a wire of several segments that needed the closing line
C2_Witness ==
    /\ wire.status = "ok"
    /\ Len(wire.segs) >= 2
    /\ Len(wire.edges) = Len(wire.segs) + 1

\* C3: in a wire built from an empty table no two distinct vertices carry
\* the same coordinate bits; every vertex of the wire is the cached vertex
\* of its key, and exactly one vertex was allocated per key in the table.
C3_NoDuplicateVertices ==
    wire.status = "ok" =>
        /\ \A v, w \in VerticesOf(wire.edges) :
              Key(v.pt) = Key(w.pt) => v = w
        /\ \A v \in VerticesOf(wire.edges) :
              /\ Key(v.pt) \in DOMAIN wire.tbl.map
              /\ wire.tbl.map[Key(v.pt)] = v
        /\ wire.tbl.allocs = Cardinality(DOMAIN wire.tbl.map)

\* a wire that comes back to a vertex it has already used before its end
C3_Witness ==
    /\ wire.status = "ok"
    /\ Len(wire.edges) >= 3
    /\ Cardinality(VerticesOf(wire.edges)) < Len(wire.edges)

\* C4: with a root chord of zero the run stops before a wire, a face or a
\* solid is built.
C4_DomainError ==
    IsZero(args.root_chord) =>
        /\ wire.status = "none"
        /\ profile = <<>>
        /\ shell.status = "none"

\* C5: a run that fails leaves no output file behind, neither empty nor
\* partial.
C5_NoPartialOutput == pc = "panic" => outfile = "absent"

\* C6: a sweep over an edge that is not a line ends in a GeometryError.
C6_GeometryError ==
    (shell.status # "none" /\ \E i \in DOMAIN profile : profile[i].kind # "Line")
        => shell.status = "GeometryError"

\* C7: for a profile of fewer than three points wire_from_path returns no
\* wire, and nothing is built from it.
C7_ProfileError ==
    (wire.status # "none" /\ Len(path) < 3) =>
        /\ wire.status # "ok"
        /\ profile = <<>>
        /\ shell.status = "none"

\* C8: for n >= 1 segments the returned wire has n + 1 edges, the last one a
\* line from the terminal vertex to the initial vertex, exactly when the
\* last point of the last segment and the first point of the first segment
\* differ in their bits; otherwise it has n edges.
C8_Closure ==
    (wire.status = "ok" /\ Len(wire.segs) > 0) =>
        LET n == Len(wire.segs)
        IN  IF Key(LastPoint(wire.segs)) # Key(FirstPoint(wire.segs))
            THEN /\ Len(wire.edges) = n + 1
                 /\ wire.edges[n + 1].kind = "Line"
                 /\ wire.edges[n + 1].front = wire.edges[n].back
                 /\ wire.edges[n + 1].back = wire.edges[1].front
                 /\ Key(wire.edges[n + 1].front.pt) = Key(LastPoint(wire.segs))
                 /\ Key(wire.edges[n + 1].back.pt) = Key(FirstPoint(wire.segs))
            ELSE Len(wire.edges) = n

\* a closing line between two points that compare equal but differ in bits
C8_Witness ==
    /\ wire.status = "ok"
    /\ Len(wire.segs) >= 2
    /\ Len(wire.edges) = Len(wire.segs) + 1
    /\ PtEq(LastPoint(wire.segs), FirstPoint(wire.segs))

\* C9: with a root chord other than zero, the plane of every line edge goes
\* through the start of the edge, its end, and the point the sweep maps its
\* end vertex to.
C9_PlaneThroughTip ==
    (shell.status = "ok" /\ ~IsZero(args.root_chord)) =>
        \A i \in DOMAIN profile :
            profile[i].kind = "Line" =>
                /\ shell.laterals[i][1] = profile[i].front.pt
                /\ shell.laterals[i][2] = profile[i].back.pt
                /\ Pt3Eq(shell.laterals[i][3], shell.tipBack[i])

\* a swept, tapered and swept-back profile of three edges or more
C9_Witness ==
    /\ shell.status = "ok"
    /\ ~IsZero(args.root_chord)
    /\ args.tip_chord # args.root_chord
    /\ ~IsZero(args.sweep)
    /\ Len(profile) >= 3

\* C10: in a run of main the path is a MoveTo followed by LineTo elements,
\* every edge of the wire and of the profile is a line, and the sweep never
\* reaches unreachable!().
C10_OnlyLines ==
    /\ \A i \in DOMAIN path :
          path[i].el = IF i = 1 THEN "MoveTo" ELSE "LineTo"
    /\ \A i \in DOMAIN wire.edges : wire.edges[i].kind = "Line"
    /\ \A i \in DOMAIN profile : profile[i].kind = "Line"
    /\ shell.status # "unreachable"
    /\ panicAt # "unreachable"

\* the sweep has run over a profile with a closing edge
C10_Witness ==
    /\ pc = "solid"
    /\ shell.status = "ok"
    /\ Len(shell.laterals) = Len(wire.segs) + 1
    /\ Len(wire.segs) >= 2
====
